---- MODULE Spec2Model ----
(***************************************************************************)
(* A model of src/main.py: the batch orchestration loop of main(), the     *)
(* Batch Analyzer analyze_batch(), the Response Extractor                  *)
(* extract_json_from_response(), the Result Sink save_results() and the    *)
(* pacing delay rate_limit_handler().                                      *)
(*                                                                         *)
(* Texts are sequences of tokens.  The tokens that matter to the regular   *)
(* expression of the extractor are "FENCE" (three backticks), the language *)
(* marker "json" and the newline "\n"; "x" is a piece of prose, and every  *)
(* other token is one whole JSON document (see JsonDocs).                  *)
(***************************************************************************)
EXTENDS Integers, Sequences, FiniteSets, TLC

\* Bounds of the model.
MaxN == 4
MaxB == 3
MaxLen == 7

\* The number of results of the final summary (for result in sorted_results[:10]).
TopN == 10

VARIABLES
    pc,             \* "start", "loop", "done", "raised": where main() is
    exc,            \* the exception that left main(), "none" when none did
    api_key,        \* os.getenv('OPENAI_API_KEY') is set and not empty
    job_arg,        \* args.job
    input_file,     \* f_station.json: "absent", "corrupt" or "ok"
    entities,       \* what f_station.json holds when it is "ok"
    batch_size,     \* args.batch_size
    output_format,  \* args.output_format
    job,            \* main's local job
    companies,      \* main's local companies
    i,              \* how many companies the for loop has gone through
    current_batch,  \* main's local current_batch
    all_results,    \* main's local all_results
    batch_num,      \* main's local batch_num
    out_file,       \* the output file of the chosen format
    writes,         \* how many times save_results opened the output file
    log,            \* the entries of logging.error, oldest first (logging.info is left out)
    summary,        \* the results logged under "Top 10 Companies"
    calls,          \* history: the arguments and the response of each analyze_batch
    trace,          \* history: <<operation, number of the batch in hand>>, oldest first
    response_text,  \* extractor run: the text under extraction
    json_str,       \* extractor run: extract_json_from_response(response_text)
    json_str2       \* extractor run: extract_json_from_response(json_str)

vars == <<pc, exc, api_key, job_arg, input_file, entities, batch_size,
          output_format, job, companies, i, current_batch, all_results,
          batch_num, out_file, writes, log, summary, calls, trace,
          response_text, json_str, json_str2>>

----------------------------------------------------------------------------
(* Sequences.                                                              *)

RECURSIVE SeqsUpTo(_, _)
SeqsUpTo(S, n) ==
    IF n = 0 THEN {<<>>}
    ELSE LET shorter == SeqsUpTo(S, n - 1)
         IN  shorter \cup {Append(s, x) : s \in {t \in shorter : Len(t) = n - 1}, x \in S}

RECURSIVE Concat(_)
Concat(ss) == IF ss = <<>> THEN <<>> ELSE Head(ss) \o Concat(Tail(ss))

Range(s) == {s[k] : k \in 1..Len(s)}

----------------------------------------------------------------------------
(* extract_json_from_response: re.search of the pattern fence, "json",     *)
(* newline, lazy group of any characters (re.DOTALL), newline, fence; then *)
(* group(1) of the match, or the text itself when there is no match.       *)

Opener == <<"FENCE", "json", "\n">>
Closer == <<"\n", "FENCE">>

MatchAt(t, p, pat) ==
    /\ p >= 1
    /\ p + Len(pat) - 1 <= Len(t)
    /\ SubSeq(t, p, p + Len(pat) - 1) = pat

\* The group is lazy: it ends before the first place, from e on, where the
\* rest of the pattern matches; 0 when there is none.
RECURSIVE LazyEnd(_, _)
LazyEnd(t, e) ==
    IF e + Len(Closer) - 1 > Len(t) THEN 0
    ELSE IF MatchAt(t, e, Closer) THEN e
    ELSE LazyEnd(t, e + 1)

\* A greedy group would end before the last such place.
RECURSIVE GreedyEnd(_, _)
GreedyEnd(t, e) ==
    IF e + Len(Closer) - 1 > Len(t) THEN 0
    ELSE LET later == GreedyEnd(t, e + 1)
         IN  IF later # 0 THEN later
             ELSE IF MatchAt(t, e, Closer) THEN e ELSE 0

\* Where group(1) ends.
group_end_greedy(t, e) == GreedyEnd(t, e)
group_end(t, e) == LazyEnd(t, e)

\* re.search tries the start positions from the left; <<0, 0>> when no match.
RECURSIVE re_search(_, _)
re_search(t, s) ==
    IF s + Len(Opener) - 1 > Len(t) THEN <<0, 0>>
    ELSE IF MatchAt(t, s, Opener) /\ group_end(t, s + Len(Opener)) # 0
         THEN <<s, group_end(t, s + Len(Opener))>>
         ELSE re_search(t, s + 1)

extract_json_from_response(text) ==
    LET json_match == re_search(text, 1)
    IN  IF json_match[1] # 0
        THEN SubSeq(text, json_match[1] + Len(Opener), json_match[2] - 1)
        ELSE text

----------------------------------------------------------------------------
(* The values json.loads returns, as far as main() looks at them: the type,*)
(* the keys of a mapping, the number of items, the list under 'analyses'.  *)

None == [type |-> "NoneType", len |-> 0, keys |-> {}, analyses |-> <<>>]
Dict(ks, recs) == [type |-> "dict", len |-> Cardinality(ks), keys |-> ks, analyses |-> recs]
List(n) == [type |-> "list", len |-> n, keys |-> {}, analyses |-> <<>>]

\* One record of the list the prompt asks for.
ScoredEntity(name, score) ==
    [company_name |-> name, score |-> score, explanation |-> "fr"]
\* The same with a field the prompt did not ask for.
WithExtra(r) ==
    [company_name |-> r.company_name, score |-> r.score,
     explanation |-> r.explanation, confidence |-> 1]

\* The lists under 'analyses' of the well-formed documents below.
Payloads ==
    << <<>>,
       <<ScoredEntity("a", 50)>>,
       <<ScoredEntity("b", 80)>>,
       <<ScoredEntity("a", 80)>>,
       <<WithExtra(ScoredEntity("a", 50))>>,
       <<ScoredEntity("b", 50), ScoredEntity("a", 80)>> >>

AnalysesDocs == <<"{analyses:[]}", "{analyses:[a50]}", "{analyses:[b80]}",
                  "{analyses:[a80]}", "{analyses:[a50+]}", "{analyses:[b50,a80]}">>

OtherDocs == {"null", "{}", "[1]", "{other:1}"}

JsonDocs == OtherDocs \cup Range(AnalysesDocs)

JsonValue(doc) ==
    CASE doc = "null" -> None
      [] doc = "{}" -> Dict({}, <<>>)
      [] doc = "[1]" -> List(1)
      [] doc = "{other:1}" -> Dict({"other"}, <<>>)
      [] OTHER -> LET k == CHOOSE n \in 1..Len(AnalysesDocs) : AnalysesDocs[n] = doc
                  IN  Dict({"analyses"}, Payloads[k])

\* json.loads skips the whitespace around the document and accepts exactly one
\* document; anything else is a JSONDecodeError.
RECURSIVE lstrip(_)
lstrip(s) == IF s # <<>> /\ Head(s) = "\n" THEN lstrip(Tail(s)) ELSE s
RECURSIVE rstrip(_)
rstrip(s) ==
    IF s # <<>> /\ s[Len(s)] = "\n" THEN rstrip(SubSeq(s, 1, Len(s) - 1)) ELSE s

json_loads(s) ==
    LET doc == rstrip(lstrip(s))
    IN  IF Len(doc) = 1 /\ doc[1] \in JsonDocs
        THEN [ok |-> TRUE, value |-> JsonValue(doc[1])]
        ELSE [ok |-> FALSE, value |-> None]

\* bool(value), as in "if result:".
Truthy(v) == v.type # "NoneType" /\ v.len > 0

----------------------------------------------------------------------------
(* validate_job_title                                                      *)

Placeholder == "define-your-job-here"

\* A check of "not job_title" alone would let the placeholder through.
validate_job_title_any(job_title) ==
    IF job_title = "" THEN [ok |-> FALSE, value |-> ""]
    ELSE [ok |-> TRUE, value |-> job_title]

validate_job_title(job_title) ==
    IF job_title = "" \/ job_title = Placeholder
    THEN [ok |-> FALSE, value |-> ""]
    ELSE [ok |-> TRUE, value |-> job_title]

----------------------------------------------------------------------------
(* save_results                                                            *)

NoFile == [exists |-> FALSE, header |-> <<>>, body |-> <<>>]

fieldnames == <<"company_name", "score", "explanation">>

\* csv.DictWriter: a missing field is written as the empty string.
Column(r, f) == IF f \in DOMAIN r THEN r[f] ELSE ""
Row(r) == [c \in 1..Len(fieldnames) |-> Column(r, fieldnames[c])]

\* csv.DictWriter (extrasaction='raise'): a field outside fieldnames is a ValueError.
HasExtras(r) == DOMAIN r \ Range(fieldnames) # {}

RECURSIVE RowsBeforeExtras(_)
RowsBeforeExtras(results) ==
    IF results = <<>> \/ HasExtras(Head(results)) THEN <<>>
    ELSE <<Row(Head(results))>> \o RowsBeforeExtras(Tail(results))

\* The file after the call, and whether the call raised.
save_results(results, format) ==
    IF format = "json"
    THEN [file |-> [exists |-> TRUE, header |-> <<>>, body |-> results],
          raised |-> FALSE]
    ELSE [file |-> [exists |-> TRUE, header |-> fieldnames,
                    body |-> RowsBeforeExtras(results)],
          raised |-> \E k \in 1..Len(results) : HasExtras(results[k])]

----------------------------------------------------------------------------
(* sorted(all_results, key=lambda x: x['score'], reverse=True): stable, so *)
(* records of equal score keep their order.                                *)

\* a, already placed, stays before b, which comes later in the list.  With a
\* strict comparison records of equal score would change places.
stays_before_strict(a, b) == a.score > b.score
stays_before(a, b) == a.score >= b.score

RECURSIVE insert(_, _)
insert(s, r) ==
    IF s = <<>> THEN <<r>>
    ELSE IF stays_before(Head(s), r) THEN <<Head(s)>> \o insert(Tail(s), r)
    ELSE <<r>> \o s

RECURSIVE sort_into(_, _)
sort_into(acc, rest) ==
    IF rest = <<>> THEN acc ELSE sort_into(insert(acc, Head(rest)), Tail(rest))

sorted_by_score(results) == sort_into(<<>>, results)

----------------------------------------------------------------------------
(* analyze_batch: the completion call either raises or returns a text.     *)

Raises == [ok |-> FALSE, content |-> <<>>]
Returns(text) == [ok |-> TRUE, content |-> text]

Plain(doc) == <<doc>>
Fenced(doc) == <<"x", "\n", "FENCE", "json", "\n", doc, "\n", "FENCE", "\n", "x">>

ResponseTexts ==
    {<<"x">>} \cup {Plain(d) : d \in JsonDocs} \cup {Fenced(AnalysesDocs[3])}

Responses == {Raises} \cup {Returns(t) : t \in ResponseTexts}

\* An except clause that returned None without logging.
analyze_batch_silent(companies_batch, num, response) ==
    IF ~response.ok THEN [ret |-> None, error |-> FALSE]
    ELSE LET parsed == json_loads(extract_json_from_response(response.content))
         IN  IF parsed.ok THEN [ret |-> parsed.value, error |-> FALSE]
             ELSE [ret |-> None, error |-> FALSE]

\* What analyze_batch returns, and whether its except clause logged an error.
\* The prompt is built from the 'company' and 'about' fields every entity of
\* the input file has, and takes no part in what follows.
analyze_batch(companies_batch, num, response) ==
    IF ~response.ok THEN [ret |-> None, error |-> TRUE]
    ELSE LET parsed == json_loads(extract_json_from_response(response.content))
         IN  IF parsed.ok THEN [ret |-> parsed.value, error |-> FALSE]
             ELSE [ret |-> None, error |-> TRUE]

BatchError(num) == [msg |-> "Error in batch", batch |-> num]
MainError == [msg |-> "Error in main execution", batch |-> 0]

----------------------------------------------------------------------------
(* main()                                                                  *)

JobArgs == {"", Placeholder, "data engineer"}
Formats == {"json", "csv"}

\* The entities of the input file, named by their place in it.
EntityList(n) == [k \in 1..n |-> k]

Init ==
    /\ pc = "start"
    /\ exc = "none"
    /\ api_key \in BOOLEAN
    /\ job_arg \in JobArgs
    /\ input_file \in {"absent", "corrupt", "ok"}
    /\ entities \in {EntityList(n) : n \in 0..MaxN}
    /\ batch_size \in 1..MaxB
    /\ output_format \in Formats
    /\ job = ""
    /\ companies = <<>>
    /\ i = 0
    /\ current_batch = <<>>
    /\ all_results = <<>>
    /\ batch_num = 0
    /\ out_file = NoFile
    /\ writes = 0
    /\ log = <<>>
    /\ summary = <<>>
    /\ calls = <<>>
    /\ trace = <<>>
    /\ response_text = <<>>
    /\ json_str = <<>>
    /\ json_str2 = <<>>

extractVars == <<response_text, json_str, json_str2>>

\* An exception leaves main(): the ones raised inside its try block are logged first.
Raise(name, logged) ==
    /\ pc' = "raised"
    /\ exc' = name
    /\ log' = IF logged THEN Append(log, MainError) ELSE log

\* Lines 108-132: the credential, the arguments, the input file, the locals.
Startup ==
    /\ pc = "start"
    /\ UNCHANGED <<api_key, job_arg, input_file, entities, batch_size, output_format,
                   i, out_file, writes, summary, calls, trace, extractVars>>
    /\ IF ~api_key
       THEN /\ Raise("ValueError", FALSE)
            /\ UNCHANGED <<job, companies, current_batch, all_results, batch_num>>
       ELSE IF ~validate_job_title(job_arg).ok
       THEN /\ Raise("ValueError", FALSE)
            /\ UNCHANGED <<job, companies, current_batch, all_results, batch_num>>
       ELSE /\ job' = validate_job_title(job_arg).value
            /\ IF input_file = "absent"
               THEN /\ Raise("FileNotFoundError", TRUE)
                    /\ UNCHANGED <<companies, current_batch, all_results, batch_num>>
               ELSE IF input_file = "corrupt"
               THEN /\ Raise("JSONDecodeError", TRUE)
                    /\ UNCHANGED <<companies, current_batch, all_results, batch_num>>
               ELSE /\ companies' = entities
                    /\ current_batch' = <<>>
                    /\ all_results' = <<>>
                    /\ batch_num' = 1
                    /\ pc' = "loop"
                    /\ UNCHANGED <<exc, log>>

\* Line 139: the batch is full, or this is the last company.
BatchIsDue(batch) == Len(batch) = batch_size \/ i = Len(companies) - 1

\* Line 157: the pacing delay follows unless this was the last company.
DelayIsDue == i < Len(companies) - 1

\* An entry of the history: the operation and the number of the batch it is for.
Event(op) == <<op, batch_num>>

\* rate_limit_handler: logs the estimated cost and sleeps.
rate_limit_handler(tr) == Append(tr, Event("rate_limit_handler"))

\* Lines 140-158, for the batch that is due with the i-th company (from 0).
ProcessBatch(batch, response) ==
    LET a        == analyze_batch(batch, batch_num, response)
        log1     == IF a.error THEN Append(log, BatchError(batch_num)) ELSE log
        trace1   == Append(trace, Event("analyze_batch"))
        extended == all_results \o a.ret.analyses
        saved    == save_results(extended, output_format)
        trace2   == Append(trace1, Event("save_results"))
        goOn(tr) ==
            /\ current_batch' = <<>>
            /\ batch_num' = batch_num + 1
            /\ i' = i + 1
            /\ trace' = IF DelayIsDue THEN rate_limit_handler(tr) ELSE tr
            /\ log' = log1
            /\ UNCHANGED <<pc, exc>>
        stop(name) ==
            /\ pc' = "raised"
            /\ exc' = name
            /\ log' = Append(log1, MainError)
            /\ current_batch' = batch
            /\ UNCHANGED <<batch_num, i>>
    IN  /\ calls' = Append(calls, [batch_num |-> batch_num,
                                   companies_batch |-> batch,
                                   response |-> response])
        /\ IF ~Truthy(a.ret)
           THEN /\ goOn(trace1)
                /\ UNCHANGED <<all_results, out_file, writes>>
           ELSE IF a.ret.type # "dict"
           THEN /\ stop("TypeError")
                /\ trace' = trace1
                /\ UNCHANGED <<all_results, out_file, writes>>
           ELSE IF "analyses" \notin a.ret.keys
           THEN /\ stop("KeyError")
                /\ trace' = trace1
                /\ UNCHANGED <<all_results, out_file, writes>>
           ELSE /\ all_results' = extended
                /\ out_file' = saved.file
                /\ writes' = writes + 1
                /\ IF saved.raised
                   THEN stop("ValueError") /\ trace' = trace2
                   ELSE goOn(trace2)

\* Lines 135-158: one turn of "for i, company in enumerate(companies)".
LoopIteration ==
    /\ pc = "loop"
    /\ i < Len(companies)
    /\ UNCHANGED <<api_key, job_arg, input_file, entities, batch_size, output_format,
                   job, companies, summary, extractVars>>
    /\ LET batch == Append(current_batch, companies[i + 1])
       IN  IF BatchIsDue(batch)
           THEN \E response \in Responses : ProcessBatch(batch, response)
           ELSE /\ current_batch' = batch
                /\ i' = i + 1
                /\ UNCHANGED <<pc, exc, all_results, batch_num, out_file, writes,
                               log, calls, trace>>

\* Lines 160-168: the final sort, the final save and the summary.
Finalize ==
    /\ pc = "loop"
    /\ i = Len(companies)
    /\ UNCHANGED <<api_key, job_arg, input_file, entities, batch_size, output_format,
                   job, companies, i, current_batch, all_results, batch_num, calls,
                   extractVars>>
    /\ LET sorted_results == sorted_by_score(all_results)
           saved == save_results(sorted_results, output_format)
       IN  /\ out_file' = saved.file
           /\ writes' = writes + 1
           /\ trace' = Append(trace, <<"save_results", batch_num>>)
           /\ IF saved.raised
              THEN Raise("ValueError", TRUE) /\ UNCHANGED summary
              ELSE /\ summary' = SubSeq(sorted_results, 1,
                                        IF Len(sorted_results) < TopN
                                        THEN Len(sorted_results) ELSE TopN)
                   /\ pc' = "done"
                   /\ UNCHANGED <<exc, log>>

Next == Startup \/ LoopIteration \/ Finalize

Spec == Init /\ [][Next]_vars

----------------------------------------------------------------------------
(* The extractor on its own: every text of at most MaxLen tokens.          *)

TextTokens == {"FENCE", "json", "\n", "x"}

\* Texts with two blocks, each part around them empty or one token long.
Parts == {<<>>} \cup {<<c>> : c \in TextTokens}
TwoBlockTexts ==
    {a \o Opener \o b \o Closer \o c \o Opener \o d \o Closer \o e :
        a \in Parts, b \in Parts, c \in Parts, d \in Parts, e \in Parts}

InitExtract ==
    /\ pc = "extract"
    /\ response_text \in SeqsUpTo(TextTokens, MaxLen) \cup TwoBlockTexts
    /\ json_str = <<>>
    /\ json_str2 = <<>>
    /\ exc = "none"
    /\ api_key = TRUE
    /\ job_arg = "data engineer"
    /\ input_file = "ok"
    /\ entities = <<>>
    /\ batch_size = 1
    /\ output_format = "json"
    /\ job = ""
    /\ companies = <<>>
    /\ i = 0
    /\ current_batch = <<>>
    /\ all_results = <<>>
    /\ batch_num = 0
    /\ out_file = NoFile
    /\ writes = 0
    /\ log = <<>>
    /\ summary = <<>>
    /\ calls = <<>>
    /\ trace = <<>>

mainVars == <<exc, api_key, job_arg, input_file, entities, batch_size,
              output_format, job, companies, i, current_batch, all_results,
              batch_num, out_file, writes, log, summary, calls, trace>>

Extract ==
    /\ pc = "extract"
    /\ json_str' = extract_json_from_response(response_text)
    /\ pc' = "extracted"
    /\ UNCHANGED <<response_text, json_str2, mainVars>>

ExtractAgain ==
    /\ pc = "extracted"
    /\ json_str2' = extract_json_from_response(json_str)
    /\ pc' = "extracted twice"
    /\ UNCHANGED <<response_text, json_str, mainVars>>

NextExtract == Extract \/ ExtractAgain

SpecExtract == InitExtract /\ [][NextExtract]_vars

----------------------------------------------------------------------------
(* What the claims speak of.                                               *)

Min(a, b) == IF a < b THEN a ELSE b
Ceil(n, b) == (n + b - 1) \div b

\* main() got past its startup phase.
Started == batch_num >= 1
\* main() has returned or an exception has left it.
Ended == pc \in {"done", "raised"}

NumBatches == Ceil(Len(companies), batch_size)
Slice(k) ==
    SubSeq(companies, (k - 1) * batch_size + 1, Min(k * batch_size, Len(companies)))

\* A response is a success when the completion returned a text that parses to a
\* mapping with the key 'analyses'; every other response is a failure.
ParsedOf(r) == json_loads(extract_json_from_response(r.content))
Succeeds(r) ==
    /\ r.ok
    /\ ParsedOf(r).ok
    /\ ParsedOf(r).value.type = "dict"
    /\ "analyses" \in ParsedOf(r).value.keys
ResultsOf(r) == IF Succeeds(r) THEN ParsedOf(r).value.analyses ELSE <<>>

FailedBatches == {k \in 1..Len(calls) : ~Succeeds(calls[k].response)}
SucceededBatches == {k \in 1..Len(calls) : Succeeds(calls[k].response)}

\* The results of the successful batches among 1..k, in batch order.
Accumulated(k) == Concat([j \in 1..k |-> ResultsOf(calls[j].response)])

\* A result list as the file of the chosen format holds it.
Persisted(results) ==
    IF output_format = "json" THEN results
    ELSE [k \in 1..Len(results) |-> Row(results[k])]
ScoreOf(x) == IF output_format = "json" THEN x.score ELSE x[2]
WithScore(s, sc) == SelectSeq(s, LAMBDA x : ScoreOf(x) = sc)

Count(s, e) == Cardinality({p \in 1..Len(s) : s[p] = e})

----------------------------------------------------------------------------
\* C1: main() hands analyze_batch exactly ceil(N/B) batches, numbered from 1 in
\* order; batch k is the slice (k-1)*B+1 .. min(k*B, N) of the input, so every
\* batch but the last has B entities, the last has N mod B or B, and every
\* entity is in exactly one batch.
C1_Partition ==
    Started =>
        /\ Len(calls) <= NumBatches
        /\ \A k \in 1..Len(calls) :
              /\ calls[k].batch_num = k
              /\ calls[k].companies_batch = Slice(k)
              /\ Len(calls[k].companies_batch) =
                    IF k < NumBatches THEN batch_size
                    ELSE IF Len(companies) % batch_size = 0 THEN batch_size
                    ELSE Len(companies) % batch_size
        /\ Ended =>
              /\ Len(calls) = NumBatches
              /\ \A e \in Range(companies) :
                    Cardinality({k \in 1..Len(calls) :
                                    e \in Range(calls[k].companies_batch)}) = 1

\* The same, but for the runs that an exception leaving main() cuts short.
PartitionUnlessRaised == pc # "raised" => C1_Partition

\* C2: when the completion call raises on every batch, analyze_batch is still
\* invoked for every batch, one error per batch is logged, no exception leaves
\* main(), the run can always go on until it is done, and the final step
\* writes the file with an empty result list.
AllRaise == \A k \in 1..Len(calls) : ~calls[k].response.ok
C2_AlwaysFailingCompletion ==
    (Started /\ AllRaise) =>
        /\ pc # "raised"
        /\ log = [k \in 1..Len(calls) |-> BatchError(k)]
        /\ all_results = <<>>
        /\ pc # "done" => ENABLED Next
        /\ pc # "done" => ~out_file.exists
        /\ pc = "done" =>
              /\ Len(calls) = NumBatches
              /\ out_file.exists
              /\ out_file.body = <<>>
              /\ writes = 1
C2_Witness ==
    /\ pc = "done"
    /\ AllRaise
    /\ Len(calls) = 3
    /\ Len(log) = 3

\* C3: every failure of a batch (the response without the key 'analyses' and
\* the response that is no mapping included) ends at analyze_batch: the batch
\* adds no result, no exception leaves the loop, and the loop goes on.
C3_BatchFailuresContained ==
    Started =>
        \A k \in FailedBatches :
            /\ ~(pc = "raised" /\ k = Len(calls))
            /\ all_results = Accumulated(Len(calls))

\* C4: after batch k the file holds the results of the successful batches among
\* 1..k, in batch order and unsorted; every successful batch rewrites the whole
\* file once, and a failed batch leaves the file alone.
C4_Checkpoint ==
    (Started /\ pc # "done") =>
        /\ out_file.exists <=> SucceededBatches # {}
        /\ out_file.body = Persisted(Accumulated(Len(calls)))
        /\ writes = Cardinality(SucceededBatches)

\* The same, but for the state a ValueError of save_results leaves behind.
CheckpointUnlessSaveRaised == ~(pc = "raised" /\ exc = "ValueError") => C4_Checkpoint

\* C5: after the final step the file holds a permutation of the results of the
\* successful batches, by non-increasing score (strictly decreasing when the
\* scores differ), the records of equal score in their order of accumulation.
C5_FinalOutput ==
    pc = "done" =>
        LET acc == Persisted(Accumulated(Len(calls)))
            out == out_file.body
        IN  /\ out_file.exists
            /\ Len(out) = Len(acc)
            /\ \A p \in 1..(Len(out) - 1) : ScoreOf(out[p]) >= ScoreOf(out[p + 1])
            /\ \A p \in 1..Len(acc) :
                  WithScore(out, ScoreOf(acc[p])) = WithScore(acc, ScoreOf(acc[p]))
            /\ (\A p, q \in 1..Len(acc) : p # q => ScoreOf(acc[p]) # ScoreOf(acc[q]))
                  => \A p \in 1..(Len(out) - 1) : ScoreOf(out[p]) > ScoreOf(out[p + 1])
C5_Witness ==
    /\ pc = "done"
    /\ output_format = "json"
    /\ all_results = <<ScoredEntity("a", 50), ScoredEntity("b", 80), ScoredEntity("a", 80)>>
    /\ out_file.body = <<ScoredEntity("b", 80), ScoredEntity("a", 80), ScoredEntity("a", 50)>>

\* C6: every failed batch has exactly one error entry with its number in the
\* log, and no other batch has one.
C6_OneErrorPerFailedBatch ==
    Started =>
        \A k \in 1..Len(calls) :
            Count(log, BatchError(k)) = IF k \in FailedBatches THEN 1 ELSE 0

\* C7: save_results with the csv selector, given records with fields beyond the
\* three columns, completes without error and writes the header and one row of
\* three columns per record; with the json selector it writes every field.
C7_CsvIgnoresExtraFields ==
    (Started /\ writes > 0 /\ pc # "done") =>
        /\ exc # "ValueError"
        /\ output_format = "csv" =>
              /\ out_file.header = fieldnames
              /\ out_file.body = [k \in 1..Len(all_results) |-> Row(all_results[k])]
        /\ output_format = "json" => out_file.body = all_results

\* C9: a missing credential, an empty or placeholder job title, an absent or
\* corrupt input file make an exception leave main() before any batch is
\* analyzed and before the file is written; any other job title is passed on
\* as it is.
BadJob == job_arg = "" \/ job_arg = Placeholder
C9_StartupErrors ==
    pc # "start" =>
        /\ (~api_key \/ BadJob \/ input_file # "ok") =>
              /\ pc = "raised"
              /\ exc # "none"
              /\ calls = <<>>
              /\ trace = <<>>
              /\ out_file = NoFile
              /\ writes = 0
        /\ (api_key /\ ~BadJob) => job = job_arg
        /\ (api_key /\ ~BadJob /\ input_file = "ok") => Started
C9_Witness ==
    /\ pc = "raised"
    /\ api_key
    /\ job_arg = Placeholder
    /\ input_file = "ok"
    /\ exc = "ValueError"

\* C10: the pacing delay runs once after every batch but the last, failed or
\* not, after the batch is analyzed (and saved) and before the next one is
\* analyzed: M batches make M-1 delays.
Delay(k) == <<"rate_limit_handler", k>>
C10_Pacing ==
    Started =>
        /\ \A k \in 1..Len(calls) :
              Count(trace, Delay(k)) = IF k < NumBatches THEN 1 ELSE 0
        /\ \A p \in 1..Len(trace) :
              trace[p][1] = "rate_limit_handler" =>
                  /\ p > 1
                  /\ trace[p - 1] \in {<<"analyze_batch", trace[p][2]>>,
                                       <<"save_results", trace[p][2]>>}
                  /\ p < Len(trace) => trace[p + 1] = <<"analyze_batch", trace[p][2] + 1>>
        /\ (Ended /\ NumBatches >= 1) =>
              Cardinality({p \in 1..Len(trace) : trace[p][1] = "rate_limit_handler"})
                  = NumBatches - 1

\* The same, but for the runs that an exception leaving main() cuts short.
PacingUnlessRaised == pc # "raised" => C10_Pacing

----------------------------------------------------------------------------
\* C8: extract_json_from_response returns the text itself when the text has no
\* block of the form fence, "json", newline, inner text, newline, fence, and
\* the inner text of the first such block when it has one or more; so
\* extracting from its own result changes nothing.
Blocks(t) ==
    {b \in (1..Len(t)) \X (1..Len(t)) :
        /\ MatchAt(t, b[1], Opener)
        /\ b[2] >= b[1] + Len(Opener)
        /\ MatchAt(t, b[2], Closer)}
FirstBlock(t) ==
    LET s0 == CHOOSE s \in {b[1] : b \in Blocks(t)} :
                 \A b \in Blocks(t) : s <= b[1]
        e0 == CHOOSE e \in {b[2] : b \in {c \in Blocks(t) : c[1] = s0}} :
                 \A b \in Blocks(t) : b[1] = s0 => e <= b[2]
    IN  <<s0, e0>>
InnerOfFirstBlock(t) ==
    SubSeq(t, FirstBlock(t)[1] + Len(Opener), FirstBlock(t)[2] - 1)
C8_Extractor ==
    /\ pc \in {"extracted", "extracted twice"} =>
          json_str = IF Blocks(response_text) = {} THEN response_text
                     ELSE InnerOfFirstBlock(response_text)
    /\ pc = "extracted twice" => json_str2 = json_str
C8_Witness ==
    /\ pc = "extracted twice"
    /\ Cardinality({b[1] : b \in Blocks(response_text)}) >= 2
    /\ json_str # response_text
    /\ json_str # <<>>
    /\ json_str2 = json_str

====
